---- MODULE Spec2Model ----
(***************************************************************************)
(* Eagle Rider: the per-frame simulation core, the pause / visibility      *)
(* state machine and the audio controller, as a state machine.             *)
(*                                                                         *)
(* Two builds of the game script exist in the repository:                  *)
(*   "dpad"  : src/game.js          (D-pad controls, visibility auto-pause)*)
(*   "swipe" : src/unnamed/part_000 (swipe controls, two-finger pause)     *)
(* Both import the same AudioController (src/audio.js).  The build is      *)
(* chosen in Init and never changes.                                       *)
(*                                                                         *)
(* Numbers.  Lengths are in thousandths of a world unit, time in           *)
(* milliseconds, angles in milliradians, audio intensity in sixtieths.     *)
(* The code's IEEE doubles are modelled by exact integer arithmetic on     *)
(* these scaled values.                                                    *)
(***************************************************************************)
EXTENDS Integers, Sequences, FiniteSets, TLC

VARIABLES
    build,       \* "dpad" | "swipe": which game script is loaded
    state,       \* the `state` object of the game script
    eagle,       \* eagle.position (x, y, z) and eagle.visible
    objects,     \* the `objects` array (hoops and obstacles)
    explosions,  \* the `explosions` array (remaining life of each)
    audio,       \* the AudioController instance
    ui,          \* the DOM panels and texts the script writes
    pending,     \* number of requestAnimationFrame callbacks queued
    rng,         \* the draws Math.random() will hand to the spawner
    keys,        \* the input flags held down (keys[], on-screen controls)
    dpad,        \* the D-pad flags, its tracked touch, and the touches down
    docHidden,   \* document.visibilityState = 'hidden'
    hist,        \* history: what happened since the last start command
    pauseCause,  \* history: what entered the current pause
    lastOp       \* history: the handler that ran last

vars == <<build, state, eagle, objects, explosions, audio, ui, pending, rng,
          keys, dpad, docHidden, hist, pauseCause, lastOp>>

(***************************************************************************)
(* Program constants                                                       *)
(***************************************************************************)
\* n world units in thousandths.
U(n) == n * 1000
PLAYER_SPEED_BASE == 50
PLAYER_SPEED_MAX == 100
PLAYER_ACCEL == 50
PLAYER_TURN_SPEED == 40
HOOP_RADIUS == 8
SPAWN_DISTANCE == 400
REMOVE_DISTANCE == 50
HOOP_SPAWN_INTERVAL == 150
DtMs == 16
ExplosionLifeMs == 2000
MissLimit == 3
NearZ == 5
FanRangeSq == 100
FanForce == -30

(***************************************************************************)
(* Bounds of the model                                                     *)
(***************************************************************************)
MaxDist == 860       \* a run is followed for this many world units
MaxRuns == 2         \* start commands per session
MaxPending == 2      \* frame callbacks queued at once
MaxFlightDist == 15500  \* a long flight is followed for this many world units
FlightHoops == 110   \* draws in the random stream of a long flight
MaxSteerDist == 460  \* a steered run is followed for this many world units
ReleaseAt == 45      \* held directions may be released this far into a run
MaxLoop == 16        \* iterations one scheduler run is followed for
MaxClockUs == 300000 \* the audio clock is followed this far (microseconds)
MaxNoteIndex == 8    \* the music is restarted and the clock moved up to this note
MaxTimers == 2       \* scheduler timers pending at once
MaxTouches == 2      \* fingers on the screen at once
MaxApproach == 16    \* an approach to an obstacle is followed this many units

\* What Math.random() yields at one spawner fire: the hoop's (x, y), the
\* roll compared with the obstacle chance (in hundredths) and, for the
\* obstacle, its kind, wall offset / log offset, wall moving flag and speed.
StillWall == [kind |-> "wall", dx |-> 0, dy |-> 0, moving |-> FALSE, speed |-> 0]
SideFan == [kind |-> "fan", dx |-> 0, dy |-> 0, moving |-> FALSE, speed |-> 0]
FarHoop == [hoop |-> <<U(40), U(35)>>, roll |-> 99, obs |-> StillWall]
AxisHoop == [hoop |-> <<0, U(5)>>, roll |-> 99, obs |-> StillWall]
AxisHoopWall == [hoop |-> <<0, U(5)>>, roll |-> 0, obs |-> StillWall]

\* The random streams a run may get; the last draw of a stream repeats.
DrawScripts ==
    { <<FarHoop>>, <<AxisHoopWall, FarHoop>>, <<AxisHoop, FarHoop>> }

\* Draws of a steered run: a hoop at the left edge of the spawn range with
\* its fan, a hoop on the flight line with a moving wall, one with a log.
DriftingWall == [kind |-> "wall", dx |-> U(3), dy |-> 0, moving |-> TRUE, speed |-> 8]
HighLog == [kind |-> "log", dx |-> 0, dy |-> U(3), moving |-> FALSE, speed |-> 0]
LeftHoopFan == [hoop |-> <<0 - U(40), U(5)>>, roll |-> 0, obs |-> SideFan]
AxisHoopDriftingWall == [hoop |-> <<0, U(5)>>, roll |-> 0, obs |-> DriftingWall]
AxisHoopLog == [hoop |-> <<0, U(5)>>, roll |-> 0, obs |-> HighLog]

SteerScripts ==
    { <<LeftHoopFan, FarHoop>>, <<AxisHoopDriftingWall, AxisHoopLog, FarHoop>> }

\* The rolls of a long flight, in turn: around the lowest chance (0.2) and
\* around the highest (0.8).
FlightRolls == <<19, 20, 79, 80>>

\* The random stream of a long flight: every hoop on the flight line, a fan
\* beside it when the roll is under the obstacle chance.
FlightScript ==
    [i \in 1..FlightHoops |->
        [hoop |-> <<0, U(5)>>, roll |-> FlightRolls[((i - 1) % Len(FlightRolls)) + 1],
         obs |-> SideFan]]

\* The input flags a frame reads: the four directions, accelerate, and
\* whether the directions come from the D-pad (which halves the turn speed).
NoInput == [left |-> FALSE, right |-> FALSE, up |-> FALSE, down |-> FALSE,
            accel |-> FALSE, dpad |-> FALSE]
AccelInput == [NoInput EXCEPT !.accel = TRUE]

\* The combinations of held inputs the model follows.
TickInputs == { NoInput, AccelInput }

\* The held directions a steered run follows: one arrow key, or the D-pad's
\* left button.
SteerInputs ==
    { NoInput,
      [NoInput EXCEPT !.left = TRUE], [NoInput EXCEPT !.right = TRUE],
      [NoInput EXCEPT !.up = TRUE], [NoInput EXCEPT !.down = TRUE],
      [NoInput EXCEPT !.left = TRUE, !.dpad = TRUE] }

Min(a, b) == IF a < b THEN a ELSE b
Max(a, b) == IF a > b THEN a ELSE b
Abs(a) == IF a < 0 THEN 0 - a ELSE a

(***************************************************************************)
(* The on-screen D-pad                                                     *)
(***************************************************************************)
\* dpadTouchIdentifier = null.
NoTouch == 0 - 1

\* The D-pad's width; touch positions are offsets from its centre on this
\* scale, so the dead zone (rect.width * 0.2) is 20.
DpadWidth == 100
DeadZone == (DpadWidth * 2) \div 10

\* The touch identifiers the browser hands out, and where a finger can be:
\* the centre, the edge of the dead zone, and beyond it, on either axis.
TouchIds == 0..(MaxTouches - 1)
TouchCoords == {0 - 30, 0 - DeadZone, 0, DeadZone, 30}

\* The module-level D-pad variables as the script declares them, with the
\* touches currently down: for each identifier "up", "other" (down on another
\* element) or its position on the D-pad.
DpadInit ==
    [isDpadUp |-> FALSE, isDpadDown |-> FALSE, isDpadLeft |-> FALSE,
     isDpadRight |-> FALSE, dpadTouchIdentifier |-> NoTouch, dpadRect |-> FALSE,
     touches |-> [t \in TouchIds |-> [where |-> "up", x |-> 0, y |-> 0]]]

\* resetDpadControls()
resetDpadControls(d) ==
    [d EXCEPT !.isDpadUp = FALSE, !.isDpadDown = FALSE,
              !.isDpadLeft = FALSE, !.isDpadRight = FALSE]

\* Variant: the flags are not reset before the new one is set.
handleDpadTouch_NoReset(d, x, y) ==
    IF Abs(x) > Abs(y)
    THEN IF x < 0 - DeadZone THEN [d EXCEPT !.isDpadLeft = TRUE]
         ELSE IF x > DeadZone THEN [d EXCEPT !.isDpadRight = TRUE]
         ELSE d
    ELSE IF y < 0 - DeadZone THEN [d EXCEPT !.isDpadUp = TRUE]
         ELSE IF y > DeadZone THEN [d EXCEPT !.isDpadDown = TRUE]
         ELSE d

\* handleDpadTouch(clientX, clientY, rect), with x = clientX - centerX and
\* y = clientY - centerY.
handleDpadTouch(d, x, y) ==
    LET d0 == resetDpadControls(d)
    IN  IF Abs(x) > Abs(y)
        THEN IF x < 0 - DeadZone THEN [d0 EXCEPT !.isDpadLeft = TRUE]
             ELSE IF x > DeadZone THEN [d0 EXCEPT !.isDpadRight = TRUE]
             ELSE d0
        ELSE IF y < 0 - DeadZone THEN [d0 EXCEPT !.isDpadUp = TRUE]
             ELSE IF y > DeadZone THEN [d0 EXCEPT !.isDpadDown = TRUE]
             ELSE d0

\* e.touches of an event: the identifiers of all touches down.
TouchesDown(d) == {t \in TouchIds : d.touches[t].where # "up"}

\* The D-pad's touchstart listener; touch t has just come down on it.
dpadTouchStart(d, t) ==
    IF Cardinality(TouchesDown(d)) = 1 /\ d.dpadTouchIdentifier = NoTouch
    THEN handleDpadTouch([d EXCEPT !.dpadTouchIdentifier = t, !.dpadRect = TRUE],
                         d.touches[t].x, d.touches[t].y)
    ELSE d

\* The D-pad's touchmove listener: looks the tracked touch up in e.touches.
dpadTouchMove(d) ==
    LET found == {t \in TouchesDown(d) : t = d.dpadTouchIdentifier}
    IN  IF found # {} /\ d.dpadRect
        THEN LET t == CHOOSE t \in found : TRUE
             IN  handleDpadTouch(d, d.touches[t].x, d.touches[t].y)
        ELSE d

\* The D-pad's touchend and touchcancel listeners; `changed` is
\* e.changedTouches.
dpadTouchEnd(d, changed) ==
    IF \E t \in changed : t = d.dpadTouchIdentifier
    THEN [resetDpadControls(d) EXCEPT !.dpadTouchIdentifier = NoTouch,
                                      !.dpadRect = FALSE]
    ELSE d

(***************************************************************************)
(* The AudioController                                                     *)
(***************************************************************************)
\* The methods class AudioController defines.
AudioMethods ==
    { "init", "startMusic", "stopMusic", "setIntensity", "scheduler",
      "playBeat", "scheduleNote", "playNoise", "playCollectSound",
      "playCrashSound", "playGameOverMusic" }

\* Calling a method the class does not define raises a TypeError.
Throws(method) == method \notin AudioMethods

\* The scheduler's lookahead window, 0.1 s, and the audio clock's step between
\* two looks at it, 25 ms; times are in microseconds.
LookaheadUs == 100000
ClockStepUs == 25000

\* The constructor's fields, with the context's clock (now) and state
\* (suspended), the number of pending scheduler timers, and the last one-shot
\* sound started.
AudioInit ==
    [ctx |-> FALSE, suspended |-> FALSE, isPlaying |-> FALSE, intensity |-> 0,
     tempo |-> 100, nextNoteTime |-> 0, noteIndex |-> 0, now |-> 0,
     timers |-> 0, lastCue |-> "none"]

\* Variant: the tempo is not recomputed.
setIntensity_StaleTempo(a, level60) ==
    [a EXCEPT !.intensity = Max(0, Min(60, level60))]

\* Variant: the level is not clamped.
setIntensity_NoClamp(a, level60) ==
    [a EXCEPT !.intensity = level60, !.tempo = 100 + level60]

\* setIntensity(level): level in sixtieths, clamped to [0, 1].
setIntensity(a, level60) ==
    LET i == Max(0, Min(60, level60))
    IN  [a EXCEPT !.intensity = i, !.tempo = 100 + i]

\* Variant: the next-note time does not advance.
NoteStep_Zero(tempo) == 0

\* secondsPerBeat / 4 = 60 / tempo / 4, in microseconds.
NoteStep(tempo) == 15000000 \div tempo

\* The while loop of scheduler(): one sixteenth-note per iteration, followed
\* for at most `fuel` iterations.
RECURSIVE schedulerLoop(_, _)
schedulerLoop(a, fuel) ==
    IF fuel = 0 \/ ~(a.nextNoteTime < a.now + LookaheadUs) THEN a
    ELSE schedulerLoop([a EXCEPT !.nextNoteTime = @ + NoteStep(a.tempo),
                                 !.noteIndex = @ + 1],
                       fuel - 1)

\* scheduler(): returns at once when not playing; else emits the notes due
\* and arms one timer for its next run.
scheduler(a) ==
    IF ~a.isPlaying THEN a
    ELSE [schedulerLoop(a, MaxLoop) EXCEPT !.timers = @ + 1]

\* startMusic(): creates the context if there is none, resumes it, sets
\* isPlaying, restarts the note clock and runs scheduler().
startMusic(a) ==
    scheduler([a EXCEPT !.ctx = TRUE, !.suspended = FALSE, !.isPlaying = TRUE,
                        !.nextNoteTime = a.now])

\* stopMusic(): clears isPlaying and suspends the context if there is one.
stopMusic(a) ==
    [a EXCEPT !.isPlaying = FALSE, !.suspended = IF a.ctx THEN TRUE ELSE @]

\* playCollectSound(): silent without a context.
playCollectSound(a) ==
    IF ~a.ctx THEN a ELSE [a EXCEPT !.lastCue = "collect"]

\* playCrashSound(): silent without a context.
playCrashSound(a) ==
    IF ~a.ctx THEN a ELSE [a EXCEPT !.lastCue = "crash"]

\* Variant: the game-over cue does not look for the context.
playGameOverMusic_NoGuard(a) ==
    [a EXCEPT !.intensity = 60, !.tempo = 60, !.lastCue = "gameOver"]

\* playGameOverMusic(): silent without a context; else intensity 1, tempo 60
\* and the drone.
playGameOverMusic(a) ==
    IF ~a.ctx THEN a
    ELSE [a EXCEPT !.intensity = 60, !.tempo = 60, !.lastCue = "gameOver"]

\* The level the game passes: misses / 3 + score * 0.05, in sixtieths.
IntensityLevel(s) == s.misses * 20 + s.score * 3

(***************************************************************************)
(* The world as one record, so that handlers compose                       *)
(***************************************************************************)
World ==
    [state |-> state, eagle |-> eagle, objects |-> objects,
     explosions |-> explosions, audio |-> audio, ui |-> ui,
     pending |-> pending, rng |-> rng, hist |-> hist]

HistInit ==
    [explosionsCreated |-> 0, crashCues |-> 0, gameOverCues |-> 0,
     gameOverUI |-> 0, gameOverCalls |-> 0]

\* updateUI(): the score and misses texts.
updateUI(w) ==
    [w EXCEPT !.ui.score = w.state.score, !.ui.misses = w.state.misses]

\* Variant: the guard is inverted, so the first trigger is ignored.
gameOver_InvertedGuard(w) ==
    IF ~w.state.gameOver
    THEN [w EXCEPT !.hist.gameOverCalls = @ + 1]
    ELSE [w EXCEPT
            !.state.gameOver = TRUE,
            !.state.isRunning = FALSE,
            !.explosions = Append(@, ExplosionLifeMs),
            !.eagle.visible = FALSE,
            !.audio = playGameOverMusic(playCrashSound(@)),
            !.ui.finalScore = w.state.score,
            !.ui.gameOverScreen = TRUE,
            !.hist.gameOverCalls = @ + 1,
            !.hist.explosionsCreated = @ + 1,
            !.hist.crashCues = @ + 1,
            !.hist.gameOverCues = @ + 1,
            !.hist.gameOverUI = @ + 1]

\* Variant: isRunning is left set.
gameOver_StillRunning(w) ==
    IF w.state.gameOver
    THEN [w EXCEPT !.hist.gameOverCalls = @ + 1]
    ELSE [w EXCEPT
            !.state.gameOver = TRUE,
            !.explosions = Append(@, ExplosionLifeMs),
            !.eagle.visible = FALSE,
            !.audio = playGameOverMusic(playCrashSound(@)),
            !.ui.finalScore = w.state.score,
            !.ui.gameOverScreen = TRUE,
            !.hist.gameOverCalls = @ + 1,
            !.hist.explosionsCreated = @ + 1,
            !.hist.crashCues = @ + 1,
            !.hist.gameOverCues = @ + 1,
            !.hist.gameOverUI = @ + 1]

\* gameOver(): guarded against a second trigger.
gameOver(w) ==
    IF w.state.gameOver
    THEN [w EXCEPT !.hist.gameOverCalls = @ + 1]
    ELSE [w EXCEPT
            !.state.gameOver = TRUE,
            !.state.isRunning = FALSE,
            !.explosions = Append(@, ExplosionLifeMs),
            !.eagle.visible = FALSE,
            !.audio = playGameOverMusic(playCrashSound(@)),
            !.ui.finalScore = w.state.score,
            !.ui.gameOverScreen = TRUE,
            !.hist.gameOverCalls = @ + 1,
            !.hist.explosionsCreated = @ + 1,
            !.hist.crashCues = @ + 1,
            !.hist.gameOverCues = @ + 1,
            !.hist.gameOverUI = @ + 1]

\* Variant: expired explosions are kept.
RECURSIVE updateExplosions_KeepsExpired(_)
updateExplosions_KeepsExpired(exps) ==
    IF exps = <<>> THEN <<>>
    ELSE <<Head(exps) - DtMs>> \o updateExplosions_KeepsExpired(Tail(exps))

\* updateExplosions(dt): count down, remove the expired ones.
RECURSIVE updateExplosions(_)
updateExplosions(exps) ==
    IF exps = <<>> THEN <<>>
    ELSE LET life == Head(exps) - DtMs
         IN  IF life <= 0 THEN updateExplosions(Tail(exps))
             ELSE <<life>> \o updateExplosions(Tail(exps))

(***************************************************************************)
(* Spawner                                                                 *)
(***************************************************************************)
Hoop(x, y, z) ==
    [type |-> "hoop", x |-> x, y |-> y, z |-> z, active |-> TRUE,
     passed |-> FALSE, missed |-> FALSE, moving |-> FALSE, speed |-> 0,
     angle |-> 0]

\* spawnWall / spawnFan / spawnLog: placed relative to the hoop.
Obstacle(o, x, y, z) ==
    IF o.kind = "wall"
    THEN [type |-> "wall", x |-> x + o.dx, y |-> y, z |-> z - U(20),
          active |-> TRUE, passed |-> FALSE, missed |-> FALSE,
          moving |-> o.moving, speed |-> o.speed, angle |-> 0]
    ELSE IF o.kind = "fan"
    THEN [type |-> "fan", x |-> x + U(10), y |-> y, z |-> z - U(10),
          active |-> TRUE, passed |-> FALSE, missed |-> FALSE,
          moving |-> FALSE, speed |-> 0, angle |-> 0]
    ELSE [type |-> "log", x |-> x, y |-> y + o.dy, z |-> z - U(15),
          active |-> TRUE, passed |-> FALSE, missed |-> FALSE,
          moving |-> FALSE, speed |-> 0, angle |-> 0]

\* Variant: the spawner fires after half an interval.
SpawnFires_HalfInterval(s, playerZ) ==
    s.lastSpawnZ - (playerZ - U(SPAWN_DISTANCE)) >= U(HOOP_SPAWN_INTERVAL) \div 2

\* The spawner fires when the last spawn point is an interval behind the horizon.
SpawnFires(s, playerZ) ==
    s.lastSpawnZ - (playerZ - U(SPAWN_DISTANCE)) >= U(HOOP_SPAWN_INTERVAL)

\* Variant: the obstacle chance is not capped.
obstacleChance_NoCap(score) == 20 + score * 5

\* Math.min(0.2 + score * 0.05, 0.8), in hundredths.
obstacleChance(score) == Min(20 + score * 5, 80)

\* spawnObjects(playerZ); the random draws come from the stream.
spawnObjects(w) ==
    LET spawnZ == w.eagle.z - U(SPAWN_DISTANCE)
        d      == Head(w.rng)
        hoop   == Hoop(d.hoop[1], d.hoop[2], spawnZ)
    IN  IF ~SpawnFires(w.state, w.eagle.z) THEN w
        ELSE [w EXCEPT
                !.state.lastSpawnZ = spawnZ,
                !.rng = IF Len(@) > 1 THEN Tail(@) ELSE @,
                !.objects =
                    IF d.roll < obstacleChance(w.state.score)
                    THEN @ \o <<hoop, Obstacle(d.obs, d.hoop[1], d.hoop[2], spawnZ)>>
                    ELSE Append(@, hoop)]

(***************************************************************************)
(* Object simulation                                                       *)
(***************************************************************************)
\* A hoop the miss pass still looks at.
Unresolved(o) == o.type = "hoop" /\ o.active /\ ~o.passed /\ ~o.missed

\* Variant: a hoop counts as behind only 60 units back.
IsBehind_Late(o, playerZ) == o.z > playerZ + U(60)

\* The hoop lies behind the player by more than the 1-unit tolerance.
IsBehind(o, playerZ) == o.z > playerZ + U(1)

\* Variant: the miss limit is tested with > instead of >=.
missStep_OffByOne(w, i) ==
    LET o == w.objects[i]
    IN  IF Unresolved(o) /\ IsBehind(o, w.eagle.z)
        THEN LET w1 == [w EXCEPT !.objects[i].missed = TRUE,
                                 !.objects[i].active = FALSE,
                                 !.state.misses = @ + 1]
                 w2 == updateUI(w1)
                 w3 == [w2 EXCEPT !.audio = setIntensity(@, IntensityLevel(w2.state))]
             IN  IF w3.state.misses > MissLimit THEN gameOver(w3) ELSE w3
        ELSE w

\* Variant: the miss limit never ends the run.
missStep_NoGameOver(w, i) ==
    LET o == w.objects[i]
    IN  IF Unresolved(o) /\ IsBehind(o, w.eagle.z)
        THEN LET w1 == [w EXCEPT !.objects[i].missed = TRUE,
                                 !.objects[i].active = FALSE,
                                 !.state.misses = @ + 1]
                 w2 == updateUI(w1)
             IN  [w2 EXCEPT !.audio = setIntensity(@, IntensityLevel(w2.state))]
        ELSE w

\* Variant: a missed hoop is left active.
missStep_KeepsActive(w, i) ==
    LET o == w.objects[i]
    IN  IF Unresolved(o) /\ IsBehind(o, w.eagle.z)
        THEN LET w1 == [w EXCEPT !.objects[i].missed = TRUE,
                                 !.state.misses = @ + 1]
                 w2 == updateUI(w1)
                 w3 == [w2 EXCEPT !.audio = setIntensity(@, IntensityLevel(w2.state))]
             IN  IF w3.state.misses >= MissLimit THEN gameOver(w3) ELSE w3
        ELSE w

\* One iteration of the miss loop, on objects[i].
missStep(w, i) ==
    LET o == w.objects[i]
    IN  IF Unresolved(o) /\ IsBehind(o, w.eagle.z)
        THEN LET w1 == [w EXCEPT !.objects[i].missed = TRUE,
                                 !.objects[i].active = FALSE,
                                 !.state.misses = @ + 1]
                 w2 == updateUI(w1)
                 w3 == [w2 EXCEPT !.audio = setIntensity(@, IntensityLevel(w2.state))]
             IN  IF w3.state.misses >= MissLimit THEN gameOver(w3) ELSE w3
        ELSE w

RECURSIVE missLoop(_, _)
missLoop(w, i) ==
    IF i > Len(w.objects) THEN w ELSE missLoop(missStep(w, i), i + 1)

\* Math.sin(angle) * 0.1 in thousandths (Bhaskara's rational approximation).
SinTenth(angle) ==
    LET r == angle % 6283
        h == IF r <= 3141 THEN r ELSE r - 3141
        p == h * (3142 - h)
        v == (400 * p) \div (12340250 - p)
    IN  IF r <= 3141 THEN v ELSE 0 - v

\* The per-object behaviour of the second loop.
behave(o, playerX) ==
    IF o.type = "wall" /\ o.moving
    THEN LET x1 == o.x + o.speed * DtMs
         IN  [o EXCEPT !.x = x1,
                       !.speed = IF Abs(x1 - playerX) > U(50) THEN 0 - @ ELSE @]
    ELSE IF o.type = "log"
    THEN LET a1 == o.angle + 2 * DtMs
         IN  [o EXCEPT !.angle = a1, !.y = @ + SinTenth(a1)]
    ELSE o

\* Variant: nothing is ever removed.
IsGone_Never(o, playerZ) == FALSE

\* The object has scrolled out behind the player.
IsGone(o, playerZ) == o.z > playerZ + U(REMOVE_DISTANCE)

RECURSIVE behaveAndClean(_, _, _)
behaveAndClean(objs, playerX, playerZ) ==
    IF objs = <<>> THEN <<>>
    ELSE LET o == behave(Head(objs), playerX)
             rest == behaveAndClean(Tail(objs), playerX, playerZ)
         IN  IF IsGone(o, playerZ) THEN rest ELSE <<o>> \o rest

\* updateObjects(dt): the miss pass, then behaviour and cleanup.
updateObjects(w) ==
    LET w1 == missLoop(w, 1)
    IN  [w1 EXCEPT !.objects = behaveAndClean(@, w1.eagle.x, w1.eagle.z)]

(***************************************************************************)
(* Collision / scoring                                                     *)
(***************************************************************************)
\* Math.sqrt on thousandths squared: the integer square root.
RECURSIVE SqrtSearch(_, _, _)
SqrtSearch(n, lo, hi) ==
    IF lo >= hi THEN lo
    ELSE LET mid == (lo + hi + 1) \div 2
         IN  IF mid * mid <= n THEN SqrtSearch(n, mid, hi)
             ELSE SqrtSearch(n, lo, mid - 1)

Sqrt(n) == SqrtSearch(n, 0, U(10))

\* dx*dx + dy*dy; beyond 10 units on either axis the sum is only compared
\* with smaller thresholds, so it is held at the square of 10 units.
DistSq(dx, dy) ==
    IF Abs(dx) >= U(10) \/ Abs(dy) >= U(10) THEN U(10) * U(10)
    ELSE Min(dx * dx + dy * dy, U(10) * U(10))

\* Variant: the plane tolerance is the 5-unit proximity window.
HoopScores_WideTolerance(dx, dy, dz) ==
    /\ DistSq(dx, dy) < U(HOOP_RADIUS) * U(HOOP_RADIUS)
    /\ Abs(dz) < U(NearZ)

\* The hoop test: inside the radius and near the hoop's plane.
HoopScores(dx, dy, dz) ==
    /\ DistSq(dx, dy) < U(HOOP_RADIUS) * U(HOOP_RADIUS)
    /\ Abs(dz) < U(1)

\* The wall and log footprints.
ObstacleHits(type, dx, dy) ==
    IF type = "log" THEN Abs(dx) < U(15) /\ Abs(dy) < U(2)
    ELSE Abs(dx) < U(10) /\ 2 * Abs(dy) < U(15)

\* The fan's push on eagle.position.x: force * dt * (1 - sqrt(distSq) / 10).
FanPush(distSq) == (FanForce * DtMs * (U(10) - Sqrt(distSq))) \div U(10)

\* Variant: objects that are no longer active are not skipped.
collideStep_NoActiveSkip(w, i) ==
    LET o  == w.objects[i]
        dz == o.z - w.eagle.z
        dx == o.x - w.eagle.x
        dy == o.y - w.eagle.y
        distSq == DistSq(dx, dy)
    IN  IF ~(Abs(dz) < U(NearZ)) THEN w
        ELSE IF o.type = "hoop"
        THEN IF HoopScores(dx, dy, dz)
             THEN updateUI([w EXCEPT
                     !.objects[i].passed = TRUE,
                     !.objects[i].active = FALSE,
                     !.audio = playCollectSound(@),
                     !.state.score = @ + 1,
                     !.state.speed = Min(@ + 1, PLAYER_SPEED_MAX)])
             ELSE w
        ELSE IF o.type \in {"wall", "log"}
        THEN IF ObstacleHits(o.type, dx, dy) THEN gameOver(w) ELSE w
        ELSE IF distSq < FanRangeSq * U(1) * U(1)
             THEN [w EXCEPT !.eagle.x = @ + FanPush(distSq)]
             ELSE w

\* Variant: the speed is raised without the cap.
collideStep_NoSpeedCap(w, i) ==
    LET o  == w.objects[i]
        dz == o.z - w.eagle.z
        dx == o.x - w.eagle.x
        dy == o.y - w.eagle.y
        distSq == DistSq(dx, dy)
    IN  IF ~o.active \/ ~(Abs(dz) < U(NearZ)) THEN w
        ELSE IF o.type = "hoop"
        THEN IF HoopScores(dx, dy, dz)
             THEN updateUI([w EXCEPT
                     !.objects[i].passed = TRUE,
                     !.objects[i].active = FALSE,
                     !.audio = playCollectSound(@),
                     !.state.score = @ + 1,
                     !.state.speed = @ + 1])
             ELSE w
        ELSE IF o.type \in {"wall", "log"}
        THEN IF ObstacleHits(o.type, dx, dy) THEN gameOver(w) ELSE w
        ELSE IF distSq < FanRangeSq * U(1) * U(1)
             THEN [w EXCEPT !.eagle.x = @ + FanPush(distSq)]
             ELSE w

\* Variant: obstacles use the 1-unit plane window of the hoops.
collideStep_NarrowWindow(w, i) ==
    LET o  == w.objects[i]
        dz == o.z - w.eagle.z
        dx == o.x - w.eagle.x
        dy == o.y - w.eagle.y
        distSq == DistSq(dx, dy)
    IN  IF ~o.active \/ ~(Abs(dz) < U(1)) THEN w
        ELSE IF o.type = "hoop"
        THEN IF HoopScores(dx, dy, dz)
             THEN updateUI([w EXCEPT
                     !.objects[i].passed = TRUE,
                     !.objects[i].active = FALSE,
                     !.audio = playCollectSound(@),
                     !.state.score = @ + 1,
                     !.state.speed = Min(@ + 1, PLAYER_SPEED_MAX)])
             ELSE w
        ELSE IF o.type \in {"wall", "log"}
        THEN IF ObstacleHits(o.type, dx, dy) THEN gameOver(w) ELSE w
        ELSE IF distSq < FanRangeSq * U(1) * U(1)
             THEN [w EXCEPT !.eagle.x = @ + FanPush(distSq)]
             ELSE w

\* Variant: scoring a hoop does not raise the speed.
collideStep_NoSpeedUp(w, i) ==
    LET o  == w.objects[i]
        dz == o.z - w.eagle.z
        dx == o.x - w.eagle.x
        dy == o.y - w.eagle.y
        distSq == DistSq(dx, dy)
    IN  IF ~o.active \/ ~(Abs(dz) < U(NearZ)) THEN w
        ELSE IF o.type = "hoop"
        THEN IF HoopScores(dx, dy, dz)
             THEN updateUI([w EXCEPT
                     !.objects[i].passed = TRUE,
                     !.objects[i].active = FALSE,
                     !.audio = playCollectSound(@),
                     !.state.score = @ + 1])
             ELSE w
        ELSE IF o.type \in {"wall", "log"}
        THEN IF ObstacleHits(o.type, dx, dy) THEN gameOver(w) ELSE w
        ELSE IF distSq < FanRangeSq * U(1) * U(1)
             THEN [w EXCEPT !.eagle.x = @ + FanPush(distSq)]
             ELSE w

\* One iteration of the collision loop, on objects[i].
collideStep(w, i) ==
    LET o  == w.objects[i]
        dz == o.z - w.eagle.z
        dx == o.x - w.eagle.x
        dy == o.y - w.eagle.y
        distSq == DistSq(dx, dy)
    IN  IF ~o.active \/ ~(Abs(dz) < U(NearZ)) THEN w
        ELSE IF o.type = "hoop"
        THEN IF HoopScores(dx, dy, dz)
             THEN updateUI([w EXCEPT
                     !.objects[i].passed = TRUE,
                     !.objects[i].active = FALSE,
                     !.audio = playCollectSound(@),
                     !.state.score = @ + 1,
                     !.state.speed = Min(@ + 1, PLAYER_SPEED_MAX)])
             ELSE w
        ELSE IF o.type \in {"wall", "log"}
        THEN IF ObstacleHits(o.type, dx, dy) THEN gameOver(w) ELSE w
        ELSE IF distSq < FanRangeSq * U(1) * U(1)
             THEN [w EXCEPT !.eagle.x = @ + FanPush(distSq)]
             ELSE w

RECURSIVE collideLoop(_, _)
collideLoop(w, i) ==
    IF i > Len(w.objects) THEN w ELSE collideLoop(collideStep(w, i), i + 1)

checkCollisions(w) == collideLoop(w, 1)

(***************************************************************************)
(* The frame callback                                                      *)
(***************************************************************************)
Clamp(v, lo, hi) == Max(lo, Min(v, hi))

\* Variant: the position is not clamped.
steer_NoClamp(e, in) ==
    LET turn == IF in.dpad THEN PLAYER_TURN_SPEED \div 2 ELSE PLAYER_TURN_SPEED
        y1 == e.y + (IF in.up THEN (turn * DtMs) \div 2 ELSE 0)
        y2 == y1 - (IF in.down THEN (turn * DtMs) \div 2 ELSE 0)
        x1 == e.x - (IF in.left THEN turn * DtMs ELSE 0)
        x2 == x1 + (IF in.right THEN turn * DtMs ELSE 0)
    IN  [e EXCEPT !.y = y2, !.x = x2]

\* Input handling and the hard clamp.
steer(e, in) ==
    LET turn == IF in.dpad THEN PLAYER_TURN_SPEED \div 2 ELSE PLAYER_TURN_SPEED
        y1 == e.y + (IF in.up THEN (turn * DtMs) \div 2 ELSE 0)
        y2 == y1 - (IF in.down THEN (turn * DtMs) \div 2 ELSE 0)
        x1 == e.x - (IF in.left THEN turn * DtMs ELSE 0)
        x2 == x1 + (IF in.right THEN turn * DtMs ELSE 0)
    IN  [e EXCEPT !.y = Clamp(y2, U(1), U(50)), !.x = Clamp(x2, U(0 - 100), U(100))]

\* Variant: the accelerate bonus is left out.
advance_NoAccel(w, in) ==
    LET moveDist == w.state.speed * DtMs
    IN  [w EXCEPT !.eagle.z = @ - moveDist,
                  !.state.distanceTraveled = @ + moveDist]

\* Forward motion of one tick.
advance(w, in) ==
    LET currentSpeed == w.state.speed + (IF in.accel THEN PLAYER_ACCEL ELSE 0)
        moveDist == currentSpeed * DtMs
    IN  [w EXCEPT !.eagle.z = @ - moveDist,
                  !.state.distanceTraveled = @ + moveDist]

\* Variant: no early return while paused.
animate_NoPauseReturn(w, in) ==
    LET w1 == [w EXCEPT !.pending = @ + 1,
                        !.explosions = updateExplosions(@)]
    IN  IF ~w1.state.isRunning THEN w1
        ELSE LET w2 == [w1 EXCEPT !.eagle = steer(@, in)]
                 w3 == advance(w2, in)
                 w4 == spawnObjects(w3)
                 w5 == updateObjects(w4)
             IN  checkCollisions(w5)

\* Variant: the spawner runs after the object update.
animate_SpawnAfterUpdate(w, in) ==
    IF w.state.isPaused THEN w
    ELSE LET w1 == [w EXCEPT !.pending = @ + 1,
                             !.explosions = updateExplosions(@)]
         IN  IF ~w1.state.isRunning THEN w1
             ELSE LET w2 == [w1 EXCEPT !.eagle = steer(@, in)]
                      w3 == advance(w2, in)
                      w4 == updateObjects(w3)
                      w5 == spawnObjects(w4)
                  IN  checkCollisions(w5)

\* Variant: the simulation tick is not skipped when no run is on.
animate_NoRunningReturn(w, in) ==
    IF w.state.isPaused THEN w
    ELSE LET w1 == [w EXCEPT !.pending = @ + 1,
                             !.explosions = updateExplosions(@)]
             w2 == [w1 EXCEPT !.eagle = steer(@, in)]
             w3 == advance(w2, in)
             w4 == spawnObjects(w3)
             w5 == updateObjects(w4)
         IN  checkCollisions(w5)

\* animate(): returns at once while paused; else re-arms itself, moves the
\* explosions and, while a run is on, runs one simulation tick.
animate(w, in) ==
    IF w.state.isPaused THEN w
    ELSE LET w1 == [w EXCEPT !.pending = @ + 1,
                             !.explosions = updateExplosions(@)]
         IN  IF ~w1.state.isRunning THEN w1
             ELSE LET w2 == [w1 EXCEPT !.eagle = steer(@, in)]
                      w3 == advance(w2, in)
                      w4 == spawnObjects(w3)
                      w5 == updateObjects(w4)
                  IN  checkCollisions(w5)

(***************************************************************************)
(* Pause, start and visibility handlers                                    *)
(***************************************************************************)
\* Variant: the not-running / game-over guard is missing.
togglePauseDpad_NoGuard(w) ==
    LET w1 == [w EXCEPT !.state.isPaused = ~@]
    IN  IF w1.state.isPaused
        THEN LET w2 == [w1 EXCEPT !.ui.pauseScreen = TRUE]
             IN  [w |-> w2, threw |-> Throws("pauseMusic")]
        ELSE LET w2 == [w1 EXCEPT !.ui.pauseScreen = FALSE]
             IN  IF Throws("resumeMusic") THEN [w |-> w2, threw |-> TRUE]
                 ELSE [w |-> [w2 EXCEPT !.pending = @ + 1], threw |-> FALSE]

\* togglePause() of src/game.js.  Returns the world and whether the handler
\* was cut short by an exception.
togglePauseDpad(w) ==
    IF ~w.state.isRunning \/ w.state.gameOver THEN [w |-> w, threw |-> FALSE]
    ELSE LET w1 == [w EXCEPT !.state.isPaused = ~@]
         IN  IF w1.state.isPaused
             THEN LET w2 == [w1 EXCEPT !.ui.pauseScreen = TRUE]
                  IN  [w |-> w2, threw |-> Throws("pauseMusic")]
             ELSE LET w2 == [w1 EXCEPT !.ui.pauseScreen = FALSE]
                  IN  IF Throws("resumeMusic") THEN [w |-> w2, threw |-> TRUE]
                      ELSE [w |-> [w2 EXCEPT !.pending = @ + 1], threw |-> FALSE]

\* Variant: the not-running / game-over guard is missing.
togglePauseSwipe_NoGuard(w, in) ==
    LET w1 == [w EXCEPT !.state.isPaused = ~@]
    IN  IF w1.state.isPaused
        THEN [w1 EXCEPT !.ui.pauseScreen = TRUE]
        ELSE animate([w1 EXCEPT !.ui.pauseScreen = FALSE], in)

\* togglePause() of src/unnamed/part_000: un-pausing calls animate() directly.
togglePauseSwipe(w, in) ==
    IF ~w.state.isRunning \/ w.state.gameOver THEN w
    ELSE LET w1 == [w EXCEPT !.state.isPaused = ~@]
         IN  IF w1.state.isPaused
             THEN [w1 EXCEPT !.ui.pauseScreen = TRUE]
             ELSE animate([w1 EXCEPT !.ui.pauseScreen = FALSE], in)

\* Variant: the explosions of the previous run are kept.
resetGame_KeepsExplosions(w) ==
    updateUI([w EXCEPT
        !.state.score = 0,
        !.state.misses = 0,
        !.state.gameOver = FALSE,
        !.state.distanceTraveled = 0,
        !.state.lastSpawnZ = 0,
        !.state.speed = PLAYER_SPEED_BASE,
        !.audio = setIntensity(@, 0),
        !.eagle = [x |-> 0, y |-> 0, z |-> 0, visible |-> TRUE],
        !.objects = <<>>])

\* resetGame()
resetGame(w) ==
    updateUI([w EXCEPT
        !.state.score = 0,
        !.state.misses = 0,
        !.state.gameOver = FALSE,
        !.state.distanceTraveled = 0,
        !.state.lastSpawnZ = 0,
        !.state.speed = PLAYER_SPEED_BASE,
        !.audio = setIntensity(@, 0),
        !.eagle = [x |-> 0, y |-> 0, z |-> 0, visible |-> TRUE],
        !.objects = <<>>,
        !.explosions = <<>>])

\* startGame() / restartGame().  In src/unnamed/part_000 the last statement
\* is audioCtrl.startMusic(); in src/game.js it is audioCtrl.resumeMusic(),
\* which AudioController does not define: the TypeError ends the handler
\* with everything before it done.
startGame(w, b) ==
    LET w1 == [w EXCEPT !.ui.startScreen = FALSE, !.ui.gameOverScreen = FALSE]
        w2 == resetGame(w1)
        w3 == [w2 EXCEPT !.state.isRunning = TRUE]
    IN  IF b = "swipe" THEN [w3 EXCEPT !.audio = startMusic(@)]
        ELSE w3

\* Variant: becoming visible un-pauses without looking at the auto flag.
handleVisibilityChange_NoFlag(w, hidden) ==
    IF hidden
    THEN IF w.state.isRunning /\ ~w.state.isPaused /\ ~w.state.gameOver
         THEN LET r == togglePauseDpad(w)
              IN  IF r.threw THEN r.w
                  ELSE [r.w EXCEPT !.state.wasAutoPausedByVisibility = TRUE]
         ELSE w
    ELSE IF w.state.isPaused /\ w.state.isRunning
         THEN LET r == togglePauseDpad(w)
              IN  IF r.threw THEN r.w
                  ELSE [r.w EXCEPT !.state.wasAutoPausedByVisibility = FALSE]
         ELSE w

\* handleVisibilityChange() (src/game.js only), for the new visibility.
handleVisibilityChange(w, hidden) ==
    IF hidden
    THEN IF w.state.isRunning /\ ~w.state.isPaused /\ ~w.state.gameOver
         THEN LET r == togglePauseDpad(w)
              IN  IF r.threw THEN r.w
                  ELSE [r.w EXCEPT !.state.wasAutoPausedByVisibility = TRUE]
         ELSE w
    ELSE IF w.state.wasAutoPausedByVisibility /\ w.state.isPaused /\ w.state.isRunning
         THEN LET r == togglePauseDpad(w)
              IN  IF r.threw THEN r.w
                  ELSE [r.w EXCEPT !.state.wasAutoPausedByVisibility = FALSE]
         ELSE w

(***************************************************************************)
(* The state machine                                                       *)
(*                                                                         *)
(* The browser around the script: a hidden document receives no input      *)
(* events and no animation frames; a button can be clicked only while the  *)
(* panel the script shows it on is displayed (start-btn on start-screen,   *)
(* restart-btn on game-over-screen); visibilitychange events alternate     *)
(* between hidden and visible.                                             *)
(***************************************************************************)
Init ==
    /\ build \in {"dpad", "swipe"}
    /\ state = [isRunning |-> FALSE, score |-> 0, misses |-> 0,
                gameOver |-> FALSE, isPaused |-> FALSE,
                wasAutoPausedByVisibility |-> FALSE,
                speed |-> PLAYER_SPEED_BASE, distanceTraveled |-> 0,
                lastSpawnZ |-> 0]
    /\ eagle = [x |-> 0, y |-> 0, z |-> 0, visible |-> TRUE]
    /\ objects = <<>>
    /\ explosions = <<>>
    /\ audio = AudioInit
    /\ ui = [startScreen |-> TRUE, gameOverScreen |-> FALSE,
             pauseScreen |-> FALSE, score |-> 0, misses |-> 0, finalScore |-> 0]
    /\ pending = 1              \* init() ends with animate()
    /\ rng = <<FarHoop>>
    /\ keys = NoInput
    /\ dpad = DpadInit
    /\ docHidden = FALSE
    /\ hist = HistInit
    /\ pauseCause = "none"
    /\ lastOp = "init"

\* Assign the program variables from a world record.
Install(w) ==
    /\ state' = w.state
    /\ eagle' = w.eagle
    /\ objects' = w.objects
    /\ explosions' = w.explosions
    /\ audio' = w.audio
    /\ ui' = w.ui
    /\ pending' = w.pending
    /\ rng' = w.rng
    /\ hist' = w.hist

\* What a change of isPaused by `cause` does to the history of the pause.
CauseAfter(w, cause) ==
    IF w.state.isPaused = state.isPaused THEN pauseCause
    ELSE IF w.state.isPaused THEN cause ELSE "none"

\* A run is followed up to MaxDist world units.
TickAllowed == ~state.isRunning \/ state.distanceTraveled < U(MaxDist)

\* The start or restart button is clicked (each only while its panel shows).
StartGame ==
    /\ ~docHidden
    /\ ui.startScreen \/ ui.gameOverScreen
    /\ audio.timers < MaxRuns
    /\ \E script \in DrawScripts :
          Install([startGame(World, build) EXCEPT !.hist = HistInit,
                                                  !.rng = script])
    /\ lastOp' = "start"
    /\ UNCHANGED <<build, dpad, keys, docHidden, pauseCause>>

\* A queued frame callback runs.
AnimateFrame ==
    /\ pending > 0
    /\ ~docHidden
    /\ state.isPaused \/ TickAllowed
    /\ LET w0 == [World EXCEPT !.pending = @ - 1]
       IN  Install(animate(w0, keys))
    /\ lastOp' = "frame"
    /\ UNCHANGED <<build, dpad, keys, docHidden, pauseCause>>

\* The pause key, the pause button or the resume button.
ManualToggle ==
    /\ ~docHidden
    /\ \/ /\ build = "dpad"
          /\ LET r == togglePauseDpad(World)
             IN  Install(r.w) /\ pauseCause' = CauseAfter(r.w, "manual")
       \/ /\ build = "swipe"
          /\ ~state.isPaused \/ (TickAllowed /\ pending < MaxPending)
          /\ LET w1 == togglePauseSwipe(World, keys)
             IN  Install(w1) /\ pauseCause' = CauseAfter(w1, "manual")
    /\ lastOp' = "toggle"
    /\ UNCHANGED <<build, dpad, keys, docHidden>>

\* A two-finger touchstart (src/unnamed/part_000 only).
TwoFingerTouch ==
    /\ build = "swipe"
    /\ ~docHidden
    /\ LET w1 == IF state.gameOver \/ state.isPaused THEN World
                 ELSE togglePauseSwipe(World, keys)
       IN  Install(w1) /\ pauseCause' = CauseAfter(w1, "manual")
    /\ lastOp' = "gesture"
    /\ UNCHANGED <<build, dpad, keys, docHidden>>

\* The document becomes hidden or visible (src/game.js listens).
VisibilityChange ==
    /\ build = "dpad"
    /\ docHidden' = ~docHidden
    /\ LET w1 == handleVisibilityChange(World, ~docHidden)
       IN  Install(w1) /\ pauseCause' = CauseAfter(w1, "auto")
    /\ lastOp' = IF docHidden THEN "visible" ELSE "hidden"
    /\ UNCHANGED <<build, dpad, keys>>

\* A key or on-screen control goes down or up.  The model follows input
\* changes while the eagle is still on the start line; from there on the
\* held inputs stay as they are.
KeyEvent ==
    /\ ~docHidden
    /\ state.distanceTraveled = 0
    /\ \E in \in TickInputs : in # keys /\ keys' = in
    /\ lastOp' = "key"
    /\ UNCHANGED <<build, dpad, state, eagle, objects, explosions, audio, ui, pending,
                   rng, docHidden, hist, pauseCause>>

Next ==
    \/ StartGame
    \/ AnimateFrame
    \/ ManualToggle
    \/ TwoFingerTouch
    \/ VisibilityChange
    \/ KeyEvent

Spec == Init /\ [][Next]_vars

(***************************************************************************)
(* Long flights: one run on the flight line, followed far enough for the   *)
(* speed to reach its maximum, with accelerate held or not.                *)
(***************************************************************************)
FlightAllowed == ~state.isRunning \/ state.distanceTraveled < U(MaxFlightDist)

\* The start button is clicked on the start screen.
FlightStart ==
    /\ ~docHidden
    /\ ui.startScreen
    /\ Install([startGame(World, build) EXCEPT !.hist = HistInit,
                                               !.rng = FlightScript])
    /\ lastOp' = "start"
    /\ UNCHANGED <<build, dpad, keys, docHidden, pauseCause>>

\* A queued frame callback runs.
FlightFrame ==
    /\ pending > 0
    /\ ~docHidden
    /\ FlightAllowed
    /\ LET w0 == [World EXCEPT !.pending = @ - 1]
       IN  Install(animate(w0, keys))
    /\ lastOp' = "frame"
    /\ UNCHANGED <<build, dpad, keys, docHidden, pauseCause>>

FlightNext ==
    \/ FlightStart
    \/ FlightFrame
    \/ KeyEvent

FlightSpec == Init /\ [][FlightNext]_vars

(***************************************************************************)
(* The audio controller alone: any sequence of its public methods, with    *)
(* the context's clock advancing and the scheduler's timers firing in      *)
(* between.                                                                *)
(***************************************************************************)
\* The levels setIntensity is called with (sixtieths): 0 and 1/3 + 45 * 0.05.
AudioLevels == {0, 155}

\* No more notes or timers are started beyond the bounds.
AudioAllowed == audio.noteIndex < MaxNoteIndex /\ audio.timers < MaxTimers

AudioRest ==
    UNCHANGED <<build, dpad, state, eagle, objects, explosions, ui, pending, rng,
                keys, docHidden, hist, pauseCause>>

AudioStartMusic ==
    /\ AudioAllowed
    /\ audio' = startMusic(audio)
    /\ lastOp' = "startMusic"
    /\ AudioRest

AudioStopMusic ==
    /\ audio.isPlaying
    /\ audio' = stopMusic(audio)
    /\ lastOp' = "stopMusic"
    /\ AudioRest

\* One pending setTimeout callback runs scheduler().
AudioTimer ==
    /\ audio.timers > 0
    /\ audio' = scheduler([audio EXCEPT !.timers = @ - 1])
    /\ lastOp' = "timer"
    /\ AudioRest

\* The running context's currentTime moves on.
AudioClock ==
    /\ audio.ctx /\ ~audio.suspended
    /\ audio.noteIndex < MaxNoteIndex
    /\ audio.now < MaxClockUs
    /\ audio' = [audio EXCEPT !.now = @ + ClockStepUs]
    /\ lastOp' = "clock"
    /\ AudioRest

AudioSetIntensity ==
    /\ \E level \in AudioLevels :
          /\ setIntensity(audio, level) # audio
          /\ audio' = setIntensity(audio, level)
    /\ lastOp' = "setIntensity"
    /\ AudioRest

\* A one-shot cue: collect, crash or game over.
AudioCue ==
    /\ \E cue \in {"collect", "crash", "gameOver"} :
          /\ audio' = IF cue = "collect" THEN playCollectSound(audio)
                      ELSE IF cue = "crash" THEN playCrashSound(audio)
                      ELSE playGameOverMusic(audio)
          /\ lastOp' = cue
    /\ AudioRest

AudioNext ==
    \/ AudioStartMusic
    \/ AudioStopMusic
    \/ AudioTimer
    \/ AudioClock
    \/ AudioSetIntensity
    \/ AudioCue

\* The page as loaded, in the build that starts the music.
AudioOnlyInit == Init /\ build = "swipe"

AudioSpec == AudioOnlyInit /\ [][AudioNext]_vars

(***************************************************************************)
(* The D-pad alone: fingers come down on the D-pad or elsewhere, move, and *)
(* lift or are cancelled, in any order.                                    *)
(***************************************************************************)
DpadRest ==
    UNCHANGED <<build, state, eagle, objects, explosions, audio, ui, pending,
                rng, keys, docHidden, hist, pauseCause>>

OnDpad(d) == {t \in TouchIds : d.touches[t].where = "dpad"}

\* A finger comes down on the D-pad.
DpadTouchStart ==
    /\ \E t \in TouchIds, x \in TouchCoords, y \in TouchCoords :
          /\ dpad.touches[t].where = "up"
          /\ dpad' = dpadTouchStart(
                        [dpad EXCEPT !.touches[t] =
                                        [where |-> "dpad", x |-> x, y |-> y]], t)
    /\ lastOp' = "touchstart"
    /\ DpadRest

\* A finger that came down on the D-pad moves.
DpadTouchMove ==
    /\ \E t \in OnDpad(dpad), x \in TouchCoords, y \in TouchCoords :
          /\ <<x, y>> # <<dpad.touches[t].x, dpad.touches[t].y>>
          /\ dpad' = dpadTouchMove(
                        [dpad EXCEPT !.touches[t].x = x, !.touches[t].y = y])
    /\ lastOp' = "touchmove"
    /\ DpadRest

\* One or more fingers that came down on the D-pad lift or are cancelled.
DpadTouchEnd ==
    /\ \E changed \in SUBSET OnDpad(dpad), kind \in {"touchend", "touchcancel"} :
          /\ changed # {}
          /\ dpad' = dpadTouchEnd(
                        [dpad EXCEPT !.touches =
                            [t \in TouchIds |->
                                IF t \in changed
                                THEN [where |-> "up", x |-> 0, y |-> 0]
                                ELSE @[t]]],
                        changed)
          /\ lastOp' = kind
    /\ DpadRest

\* A finger comes down on, or lifts from, another element: no D-pad listener
\* runs.
OtherTouch ==
    /\ \E t \in TouchIds :
          \/ /\ dpad.touches[t].where = "up"
             /\ dpad' = [dpad EXCEPT !.touches[t].where = "other"]
          \/ /\ dpad.touches[t].where = "other"
             /\ dpad' = [dpad EXCEPT !.touches[t].where = "up"]
    /\ lastOp' = "othertouch"
    /\ DpadRest

DpadNext ==
    \/ DpadTouchStart
    \/ DpadTouchMove
    \/ DpadTouchEnd
    \/ OtherTouch

\* The page as loaded, in the build with the D-pad.
DpadOnlyInit == Init /\ build = "dpad"

DpadSpec == DpadOnlyInit /\ [][DpadNext]_vars

(***************************************************************************)
(* Pause and visibility                                                    *)
(***************************************************************************)
\* C1: a visibility event (hidden or visible) that arrives while the game is
\* in a pause entered by a manual toggle leaves isPaused true.
C1_ManualPauseSurvivesVisibility ==
    [][(lastOp' \in {"hidden", "visible"} /\ state.isPaused /\ pauseCause = "manual")
        => state'.isPaused]_vars

\* A visibility-visible event has just been handled during a manual pause.
C1_Witness ==
    lastOp = "visible" /\ pauseCause = "manual" /\ state.isPaused

\* C2: a visibility-hidden event that arrives while running, not paused and
\* not game over leaves isPaused true and wasAutoPausedByVisibility true.
C2_HiddenAutoPausesWithFlag ==
    [][(lastOp' = "hidden" /\ state.isRunning /\ ~state.isPaused /\ ~state.gameOver)
        => (state'.isPaused /\ state'.wasAutoPausedByVisibility)]_vars

\* C3: a visibility-visible event that arrives during an automatic pause
\* leaves isPaused false, isRunning true and the auto flag false.
C3_VisibleAutoResumes ==
    [][(lastOp' = "visible" /\ state.isPaused /\ pauseCause = "auto")
        => (~state'.isPaused /\ state'.isRunning
            /\ ~state'.wasAutoPausedByVisibility)]_vars

\* C4: whenever isPaused goes from true to false, a frame callback is
\* pending afterwards.
C4_UnpauseRearmsFrames ==
    [][(state.isPaused /\ ~state'.isPaused) => pending' > 0]_vars

\* C5: a frame callback that fires while isPaused is true does not re-arm
\* itself and changes neither the state object, the player, the objects nor
\* the explosions.
C5_PausedFrameDoesNothing ==
    [][(lastOp' = "frame" /\ state.isPaused)
        => (/\ pending' = pending - 1
            /\ state' = state
            /\ eagle' = eagle
            /\ objects' = objects
            /\ explosions' = explosions
            /\ rng' = rng)]_vars

\* A frame callback has fired in the middle of a paused run.
C5_Witness ==
    /\ lastOp = "frame" /\ state.isPaused /\ pending = 0
    /\ state.distanceTraveled > 0 /\ objects # <<>>

\* C6: the manual pause toggle (key, button or gesture) changes nothing when
\* the game is not running or is over.
C6_ToggleNoOpWhenNotRunning ==
    [][(lastOp' \in {"toggle", "gesture"} /\ (~state.isRunning \/ state.gameOver))
        => (/\ state' = state
            /\ pending' = pending
            /\ pauseCause' = pauseCause
            /\ UNCHANGED <<eagle, objects, explosions, audio, ui, rng, keys,
                           hist, docHidden, build>>)]_vars

\* The toggle has just been used on the game-over panel.
C6_Witness ==
    lastOp = "toggle" /\ state.gameOver /\ ~state.isPaused /\ ui.gameOverScreen

C8_GameOverNotRunning == state.gameOver => ~state.isRunning

\* The run has just ended.
C8_Witness == state.gameOver /\ lastOp = "frame" /\ Len(explosions) = 1

\* C9: misses does not decrease from one running state to the next, and a
\* step that leaves misses at 3 or more leaves gameOver true.
C9_MissesMonotoneAndFatal ==
    [][/\ (state.isRunning /\ state'.isRunning) => state'.misses >= state.misses
       /\ state'.misses >= MissLimit => state'.gameOver]_vars

\* The third miss has ended the run.
C9_Witness == state.misses = MissLimit /\ state.gameOver /\ ui.misses = MissLimit

\* C10: misses is between 0 and 3.
C10_MissesInRange == state.misses \in 0..MissLimit

\* Three hoops have been missed and the explosion of the third is running.
C10_Witness == state.misses = MissLimit /\ explosions # <<>>

(***************************************************************************)
(* Scoring, start and audio intensity                                      *)
(***************************************************************************)
\* C11: a hoop already marked passed never scores again: a step that leaves
\* the player inside the radius and plane tolerance of a passed hoop changes
\* neither score nor speed.
C11_PassedHoopScoresOnce ==
    [][\A i \in 1..Len(objects) :
          (/\ objects[i].type = "hoop" /\ objects[i].passed
           /\ state.isRunning /\ state'.isRunning
           /\ HoopScores(objects[i].x - eagle'.x, objects[i].y - eagle'.y,
                         objects[i].z - eagle'.z))
          => (state'.score = state.score /\ state'.speed = state.speed)]_vars

\* A tick has ended with the player still inside the volume of the hoop it
\* scored on an earlier tick.
C11_Witness ==
    /\ lastOp = "frame" /\ state.isRunning /\ state.score = 1
    /\ \E i \in 1..Len(objects) :
          /\ objects[i].type = "hoop" /\ objects[i].passed
          /\ objects[i].z - eagle.z >= 0
          /\ HoopScores(objects[i].x - eagle.x, objects[i].y - eagle.y,
                        objects[i].z - eagle.z)

\* C15: after a start or restart command score, misses, distanceTraveled and
\* lastSpawnZ are 0, speed is PLAYER_SPEED_BASE, there are no objects and no
\* explosions, gameOver is false, isRunning is true and the player is visible.
C15_StartResets ==
    [][lastOp' = "start"
        => (/\ state'.score = 0 /\ state'.misses = 0
            /\ state'.speed = PLAYER_SPEED_BASE
            /\ state'.distanceTraveled = 0 /\ state'.lastSpawnZ = 0
            /\ objects' = <<>> /\ explosions' = <<>>
            /\ ~state'.gameOver /\ state'.isRunning /\ eagle'.visible)]_vars

\* The game has just been restarted after a run that scored a hoop.
C15_Witness ==
    /\ lastOp = "start" /\ ui.finalScore = 1 /\ ~ui.gameOverScreen
    /\ state.isRunning /\ objects = <<>>

\* C16: after a start or restart command the audio controller's isPlaying is
\* true and its scheduler timer is armed.
C16_StartRunsBeatClock ==
    [][lastOp' = "start" => (audio'.isPlaying /\ audio'.timers >= 1)]_vars

\* C19: after a step that raises score or misses, the audio intensity is
\* misses / 3 + score * 0.05 clamped to [0, 1], from the new score and misses.
C19_IntensityFollowsScoreAndMisses ==
    [][(state'.score > state.score \/ state'.misses > state.misses)
        => audio'.intensity
             = Max(0, Min(60, state'.misses * 20 + state'.score * 3))]_vars

(***************************************************************************)
(* Steered runs: one run with a direction held from the start line and     *)
(* possibly released on the way, past a fan, a moving wall and a log.      *)
(***************************************************************************)
SteerAllowed == ~state.isRunning \/ state.distanceTraveled < U(MaxSteerDist)

\* The start button is clicked on the start screen.
SteerStart ==
    /\ ~docHidden
    /\ ui.startScreen
    /\ \E script \in SteerScripts :
          Install([startGame(World, build) EXCEPT !.hist = HistInit,
                                                  !.rng = script])
    /\ lastOp' = "start"
    /\ UNCHANGED <<build, dpad, keys, docHidden, pauseCause>>

\* A queued frame callback runs.
SteerFrame ==
    /\ pending > 0
    /\ ~docHidden
    /\ SteerAllowed
    /\ LET w0 == [World EXCEPT !.pending = @ - 1]
       IN  Install(animate(w0, keys))
    /\ lastOp' = "frame"
    /\ UNCHANGED <<build, dpad, keys, docHidden, pauseCause>>

\* A direction goes down on the start line, or the held one goes up
\* ReleaseAt units into the run.
SteerKey ==
    /\ ~docHidden
    /\ \/ /\ state.distanceTraveled = 0
          /\ \E in \in SteerInputs : in # keys /\ keys' = in
       \/ /\ state.distanceTraveled >= U(ReleaseAt)
          /\ state.distanceTraveled < U(ReleaseAt + 1)
          /\ keys # NoInput
          /\ keys' = NoInput
    /\ lastOp' = "key"
    /\ UNCHANGED <<build, dpad, state, eagle, objects, explosions, audio, ui, pending,
                   rng, docHidden, hist, pauseCause>>

SteerNext ==
    \/ SteerStart
    \/ SteerFrame
    \/ SteerKey

SteerSpec == Init /\ [][SteerNext]_vars

(***************************************************************************)
(* The approach to an obstacle: the player in mid-run, 1000 units out, at  *)
(* a drawn speed, inside the footprint of a wall or log that lies a drawn  *)
(* distance ahead, just outside the proximity window.  The obstacle's hoop *)
(* (12 units to the side, already missed) and the next two hoops are in    *)
(* the object list as the spawner leaves them.                             *)
(***************************************************************************)
ApproachSpeeds == {PLAYER_SPEED_BASE, 76, PLAYER_SPEED_MAX}
ApproachObstacles ==
    { [kind |-> "wall", dx |-> 0 - U(4), dy |-> 0, moving |-> FALSE, speed |-> 0],
      [kind |-> "wall", dx |-> 0 - U(4), dy |-> 0, moving |-> TRUE, speed |-> 0 - 8],
      [kind |-> "log", dx |-> 0, dy |-> 0, moving |-> FALSE, speed |-> 0] }
ApproachDz == { 0 - (5000 + 100 * k) : k \in 0..24 }

ApproachInit ==
    /\ build \in {"dpad", "swipe"}
    /\ keys \in TickInputs
    /\ dpad = DpadInit
    /\ \E sp \in ApproachSpeeds, ob \in ApproachObstacles, dz \in ApproachDz :
          LET ez == 0 - U(1000)
              oz == ez + dz
              hz == oz + (IF ob.kind = "wall" THEN U(20) ELSE U(15))
              st == [isRunning |-> TRUE, score |-> sp - PLAYER_SPEED_BASE,
                     misses |-> 1, gameOver |-> FALSE, isPaused |-> FALSE,
                     wasAutoPausedByVisibility |-> FALSE, speed |-> sp,
                     distanceTraveled |-> U(1000),
                     lastSpawnZ |-> hz - U(300)]
          IN  /\ eagle = [x |-> 0, y |-> U(5), z |-> ez, visible |-> TRUE]
              /\ objects =
                    << [Hoop(U(12), U(5), hz) EXCEPT !.missed = TRUE, !.active = FALSE],
                       Obstacle(ob, U(12), U(5), hz),
                       Hoop(U(40), U(35), hz - U(150)),
                       Hoop(U(40), U(35), hz - U(300)) >>
              /\ state = st
              /\ audio = setIntensity(IF build = "swipe" THEN startMusic(AudioInit)
                                      ELSE AudioInit, IntensityLevel(st))
              /\ ui = [startScreen |-> FALSE, gameOverScreen |-> FALSE,
                       pauseScreen |-> FALSE, score |-> st.score,
                       misses |-> st.misses, finalScore |-> 0]
    /\ explosions = <<>>
    /\ pending = 1
    /\ rng = <<FarHoop>>
    /\ docHidden = FALSE
    /\ hist = HistInit
    /\ pauseCause = "none"
    /\ lastOp = "frame"

\* A queued frame callback runs.
ApproachFrame ==
    /\ pending > 0
    /\ state.isRunning
    /\ state.distanceTraveled < U(1000 + MaxApproach)
    /\ LET w0 == [World EXCEPT !.pending = @ - 1]
       IN  Install(animate(w0, keys))
    /\ lastOp' = "frame"
    /\ UNCHANGED <<build, dpad, keys, docHidden, pauseCause>>

ApproachSpec == ApproachInit /\ [][ApproachFrame]_vars

(***************************************************************************)
(* The collision phase on its own: checkCollisions applied to a tick that  *)
(* has moved the player and updated the objects, with the nearest hoop at  *)
(* a drawn offset from the player.                                         *)
(***************************************************************************)
\* Offsets of the nearest hoop from the player, in thousandths: across the
\* radius (8 units), and along z up to the miss line (1 unit behind) and
\* out to the proximity window (5 units ahead).
HoopDx == {0, U(5), U(8), 0 - 5657, 7900}
HoopDy == {0, 0 - U(5), U(6), 5657, 6300}
HoopDz == {0 - 4900, 0 - U(3), 0 - U(1), 0 - 999, 0 - 500, 0, 500, 999, U(1)}

\* The player in mid-run at base speed, 10 units up, with the hoops spawned
\* so far: the nearest at the drawn offset, the next two further ahead.
CollisionInit ==
    /\ build \in {"dpad", "swipe"}
    /\ \E dx \in HoopDx, dy \in HoopDy, dz \in HoopDz :
          LET ez == 0 - 400800 - dz
          IN  /\ eagle = [x |-> 0, y |-> U(10), z |-> ez, visible |-> TRUE]
              /\ objects = << Hoop(dx, U(10) + dy, 0 - 400800),
                              Hoop(U(40), U(35), 0 - 551200),
                              Hoop(U(40), U(35), 0 - 701600) >>
              /\ state = [isRunning |-> TRUE, score |-> 0, misses |-> 0,
                          gameOver |-> FALSE, isPaused |-> FALSE,
                          wasAutoPausedByVisibility |-> FALSE,
                          speed |-> PLAYER_SPEED_BASE,
                          distanceTraveled |-> 0 - ez,
                          lastSpawnZ |-> 0 - 701600]
    /\ explosions = <<>>
    /\ audio = IF build = "swipe" THEN startMusic(AudioInit) ELSE AudioInit
    /\ ui = [startScreen |-> FALSE, gameOverScreen |-> FALSE,
             pauseScreen |-> FALSE, score |-> 0, misses |-> 0, finalScore |-> 0]
    /\ pending = 1
    /\ rng = <<FarHoop>>
    /\ keys = NoInput
    /\ dpad = DpadInit
    /\ docHidden = FALSE
    /\ hist = HistInit
    /\ pauseCause = "none"
    /\ lastOp = "update"

\* The tick reaches its collision phase.
CollisionPhase ==
    /\ lastOp = "update"
    /\ Install(checkCollisions(World))
    /\ lastOp' = "collide"
    /\ UNCHANGED <<build, dpad, keys, docHidden, pauseCause>>

CollisionSpec == CollisionInit /\ [][CollisionPhase]_vars

\* C12: a hoop that the player crosses while inside its radius is never
\* counted as a miss, at any speed: a step that starts and ends with the
\* player laterally inside an unresolved hoop does not mark that hoop missed.
C12_FlyThroughScores ==
    [][\A i \in 1..Len(objects) : \A j \in 1..Len(objects') :
          (/\ Unresolved(objects[i])
           /\ objects'[j].type = "hoop" /\ objects'[j].z = objects[i].z
           /\ DistSq(objects[i].x - eagle.x, objects[i].y - eagle.y)
                < U(HOOP_RADIUS) * U(HOOP_RADIUS)
           /\ DistSq(objects[i].x - eagle'.x, objects[i].y - eagle'.y)
                < U(HOOP_RADIUS) * U(HOOP_RADIUS))
          => ~objects'[j].missed]_vars

\* C17: speed is between PLAYER_SPEED_BASE and PLAYER_SPEED_MAX in every
\* state, and a step that scores a hoop raises it by 1 up to PLAYER_SPEED_MAX.
C17_SpeedInRange ==
    /\ state.speed \in PLAYER_SPEED_BASE..PLAYER_SPEED_MAX
    /\ [][/\ state'.speed \in PLAYER_SPEED_BASE..PLAYER_SPEED_MAX
          /\ state'.score = state.score + 1
               => state'.speed = (IF state.speed < PLAYER_SPEED_MAX
                                  THEN state.speed + 1 ELSE PLAYER_SPEED_MAX)]_vars

\* A hoop has been scored with the speed already at its maximum.
C17_Witness ==
    /\ state.speed = PLAYER_SPEED_MAX
    /\ state.score > PLAYER_SPEED_MAX - PLAYER_SPEED_BASE
    /\ state.isRunning

\* C18: the obstacle chance is min(0.2 + 0.05 * score, 0.8): 0.2 at score 0,
\* 0.8 at score 12 and at 100, non-decreasing in score; and at every spawner
\* fire an obstacle is placed exactly when the roll is under that chance.
C18_ObstacleChance ==
    /\ obstacleChance(0) = 20 /\ obstacleChance(12) = 80
    /\ obstacleChance(100) = 80
    /\ \A s \in 0..100 : obstacleChance(s) <= obstacleChance(s + 1)
    /\ [][state'.lastSpawnZ < state.lastSpawnZ
          => LET chance == IF state.score >= 12 THEN 80
                           ELSE 20 + 5 * state.score
                 placed == \E j \in 1..Len(objects') :
                              /\ objects'[j].type # "hoop"
                              /\ objects'[j].z < state'.lastSpawnZ
             IN  placed <=> (Head(rng).roll < chance)]_vars

\* The spawner has fired at score 100 with a roll just under 0.8: the fan
\* it placed is the newest object.
C18_Witness ==
    /\ state.score >= 100 /\ objects # <<>>
    /\ objects[Len(objects)].type = "fan"
    /\ objects[Len(objects)].z = state.lastSpawnZ - U(10)

\* C13: the collision phase scores an active hoop exactly when its squared
\* lateral + vertical distance is below HOOP_RADIUS squared and its absolute
\* longitudinal distance is below 1.0; at offsets (0, 0, 0.5) it scores, and
\* 3 units off along z it does not.
C13_HoopScoresInRadiusAndPlane ==
    [][lastOp' = "collide"
        => LET dx == objects[1].x - eagle.x
               dy == objects[1].y - eagle.y
               dz == objects[1].z - eagle.z
               scored == /\ objects'[1].passed /\ ~objects'[1].active
                         /\ state'.score = state.score + 1
               untouched == /\ objects' = objects /\ state' = state
           IN  /\ (dx * dx + dy * dy < 64000000 /\ dz > 0 - 1000 /\ dz < 1000)
                    => scored
               /\ ~(dx * dx + dy * dy < 64000000 /\ dz > 0 - 1000 /\ dz < 1000)
                    => untouched
               /\ (dx = 0 /\ dy = 0 /\ dz = 500) => scored
               /\ (dx = 0 /\ dy = 0 /\ dz = 0 - 3000) => untouched]_vars

\* The collision phase has scored the hoop at offsets (0, 0, 0.5).
C13_Witness ==
    /\ lastOp = "collide" /\ state.score = 1
    /\ objects[1].passed
    /\ objects[1].x = eagle.x /\ objects[1].y = eagle.y
    /\ objects[1].z - eagle.z = 500

\* C14: after every running tick (input, clamp and collision phase with any
\* fan push), the player's y is in [1, 50] and x is in [-100, 100].
C14_PositionClamped ==
    [][(lastOp' = "frame" /\ state.isRunning /\ ~state.isPaused)
        => (/\ eagle'.y >= U(1) /\ eagle'.y <= U(50)
            /\ eagle'.x >= 0 - U(100) /\ eagle'.x <= U(100))]_vars

\* A tick has ended with the player in the range of a fan that pushed it
\* left of where the released left key had left it.
C14_Witness ==
    /\ lastOp = "frame" /\ state.isRunning /\ keys = NoInput
    /\ eagle.x < 0 /\ eagle.x % (PLAYER_TURN_SPEED * DtMs) # 0
    /\ \E i \in 1..Len(objects) :
          /\ objects[i].type = "fan"
          /\ Abs(objects[i].z - eagle.z) < U(NearZ)
          /\ DistSq(objects[i].x - eagle.x, objects[i].y - eagle.y)
               < FanRangeSq * U(1) * U(1)

\* C20: a running tick spawns, then updates behaviour and cleans up, then
\* collides.  The objects spawned in a tick have had their behaviour update
\* and are untouched by the collision phase, and score, misses, speed,
\* gameOver and the player's position are what the tick gives without them;
\* after the tick no object is further than REMOVE_DISTANCE behind.
C20_PhaseOrder ==
    [][(lastOp' = "frame" /\ state.isRunning /\ ~state.isPaused)
        => LET w0 == [World EXCEPT !.pending = @ - 1,
                                   !.eagle = steer(@, keys)]
               noSpawn == checkCollisions(updateObjects(advance(w0, keys)))
               d == Head(rng)
           IN  /\ state'.lastSpawnZ < state.lastSpawnZ
                  => /\ \A j \in 1..Len(objects') :
                          objects'[j].z <= state'.lastSpawnZ
                          => /\ objects'[j].active
                             /\ ~objects'[j].passed /\ ~objects'[j].missed
                             /\ (objects'[j].type = "wall" /\ objects'[j].moving)
                                  => objects'[j].x
                                       = d.hoop[1] + d.obs.dx + d.obs.speed * DtMs
                             /\ objects'[j].type = "log"
                                  => objects'[j].angle = 2 * DtMs
                     /\ state'.score = noSpawn.state.score
                     /\ state'.misses = noSpawn.state.misses
                     /\ state'.speed = noSpawn.state.speed
                     /\ state'.gameOver = noSpawn.state.gameOver
                     /\ eagle' = noSpawn.eagle
               /\ \A j \in 1..Len(objects') :
                     objects'[j].z <= eagle'.z + U(REMOVE_DISTANCE)
               /\ \A i \in 1..Len(objects) :
                     objects[i].z > eagle'.z + U(REMOVE_DISTANCE)
                     => \A j \in 1..Len(objects') : objects'[j].z # objects[i].z]_vars

\* The log spawned in the tick just ended has had its first swing update.
C20_Witness ==
    /\ lastOp = "frame" /\ state.isRunning /\ objects # <<>>
    /\ objects[Len(objects)].type = "log"
    /\ objects[Len(objects)].z = state.lastSpawnZ - U(15)
    /\ objects[Len(objects)].angle = 2 * DtMs

(***************************************************************************)
(* Motion, pause gesture and the frame driver                              *)
(***************************************************************************)
\* C21 as stated: a running tick moves the player by currentSpeed * dt and
\* adds the same to distanceTraveled, and at speed 50 without accelerate the
\* move is 50/60 (0.833) per tick.
C21_MoveAtSixtiethOfSecond ==
    [][(lastOp' = "frame" /\ state.isRunning /\ ~state.isPaused)
        => LET currentSpeed == state.speed + (IF keys.accel THEN PLAYER_ACCEL ELSE 0)
           IN  /\ eagle.z - eagle'.z = currentSpeed * DtMs
               /\ state'.distanceTraveled - state.distanceTraveled
                    = currentSpeed * DtMs
               /\ (state.speed = 50 /\ ~keys.accel)
                    => eagle.z - eagle'.z = U(50) \div 60]_vars

\* C21 amended: a running tick moves the player by currentSpeed * dt and adds
\* the same to distanceTraveled, currentSpeed being speed + PLAYER_ACCEL with
\* accelerate and speed without; dt is the constant 0.016, so at speed 50
\* without accelerate the move is 0.8 per tick.
C21_MoveBySpeedTimesDt ==
    [][(lastOp' = "frame" /\ state.isRunning /\ ~state.isPaused)
        => LET currentSpeed == state.speed + (IF keys.accel THEN PLAYER_ACCEL ELSE 0)
           IN  /\ eagle.z - eagle'.z = currentSpeed * DtMs
               /\ state'.distanceTraveled - state.distanceTraveled
                    = currentSpeed * DtMs
               /\ (state.speed = 50 /\ ~keys.accel)
                    => eagle.z - eagle'.z = 800
               /\ (state.speed = 50 /\ keys.accel)
                    => eagle.z - eagle'.z = 1600]_vars

\* Ticks have run at speed above base with accelerate held.
C21_Witness ==
    /\ lastOp = "frame" /\ state.isRunning /\ keys.accel
    /\ state.speed > PLAYER_SPEED_BASE
    /\ state.distanceTraveled > U(1000)

\* C22: in the swipe build a two-finger touch while running and unpaused
\* pauses the game, and a two-finger touch while paused un-pauses it.
C22_GestureTogglesBothWays ==
    [][(lastOp' = "gesture" /\ state.isRunning /\ ~state.gameOver)
        => state'.isPaused = ~state.isPaused]_vars

\* C23: at most one frame callback is pending at any time.
C23_OnePendingFrame == pending <= 1

(***************************************************************************)
(* Game-over freeze, obstacles, misses, spawner and cleanup                *)
(***************************************************************************)
\* C24: from the moment gameOver is set until the next start command score,
\* misses and speed do not change, the rest of the triggering tick included:
\* while gameOver holds the final score on the panel equals score, misses is
\* at most 3 and speed is the one score gives.
C24_GameOverFreezes ==
    /\ [](state.gameOver
            => /\ ui.finalScore = state.score
               /\ state.misses <= MissLimit
               /\ state.speed = Min(PLAYER_SPEED_BASE + state.score, PLAYER_SPEED_MAX))
    /\ [][(state.gameOver /\ lastOp' # "start")
            => (/\ state'.score = state.score
                /\ state'.misses = state.misses
                /\ state'.speed = state.speed
                /\ state'.gameOver)]_vars

\* Frames have kept firing after a game over that followed a scored hoop,
\* until the explosion was gone.
C24_Witness ==
    /\ state.gameOver /\ lastOp = "frame" /\ explosions = <<>>
    /\ state.score = 1 /\ ui.finalScore = 1

\* C25: a tick that ends with a wall within 5 units along z and |dx| < 10,
\* |dy| < 7.5, or a log within 5 units and |dx| < 15, |dy| < 2, ends with
\* gameOver; and the player is never level with or past an obstacle whose
\* footprint it is in without gameOver, at any speed.
C25_ObstacleStops ==
    /\ [][\A j \in 1..Len(objects') :
            LET o == objects'[j]
                dx == o.x - eagle'.x
                dy == o.y - eagle'.y
                dz == o.z - eagle'.z
            IN  (/\ lastOp' = "frame" /\ state.isRunning /\ ~state.isPaused
                 /\ dz > 0 - 5000 /\ dz < 5000
                 /\ \/ o.type = "wall" /\ Abs(dx) < 10000 /\ Abs(dy) < 7500
                    \/ o.type = "log" /\ Abs(dx) < 15000 /\ Abs(dy) < 2000)
                => state'.gameOver]_vars
    /\ [](\A i \in 1..Len(objects) :
            LET o == objects[i]
                dx == o.x - eagle.x
                dy == o.y - eagle.y
            IN  (/\ o.z >= eagle.z
                 /\ \/ o.type = "wall" /\ Abs(dx) < 10000 /\ Abs(dy) < 7500
                    \/ o.type = "log" /\ Abs(dx) < 15000 /\ Abs(dy) < 2000)
                => state.gameOver)

\* The run has ended on a wall met at the highest speed with accelerate held
\* (2.4 units per tick), on the first tick inside the proximity window.
C25_Witness ==
    /\ state.gameOver /\ keys.accel /\ state.speed = PLAYER_SPEED_MAX
    /\ \E i \in 1..Len(objects) :
          /\ objects[i].type = "wall"
          /\ objects[i].z - eagle.z <= 0 - 2600
          /\ objects[i].z - eagle.z > 0 - 5000

\* C26: in the tick that leaves an unresolved hoop more than 1 unit behind
\* the player, the hoop is marked missed and deactivated and misses goes up by
\* exactly 1; and a hoop removed by cleanup is already passed or missed.
C26_MissMarked ==
    [][(lastOp' = "frame" /\ state.isRunning /\ ~state.isPaused)
        => \A i \in 1..Len(objects) :
              /\ (Unresolved(objects[i]) /\ objects[i].z > eagle'.z + 1000)
                   => /\ \E j \in 1..Len(objects') :
                            /\ objects'[j].type = "hoop"
                            /\ objects'[j].z = objects[i].z
                            /\ objects'[j].missed /\ ~objects'[j].active
                            /\ ~objects'[j].passed
                      /\ state'.misses = state.misses + 1
              /\ (/\ objects[i].type = "hoop"
                  /\ \A j \in 1..Len(objects') : objects'[j].z # objects[i].z)
                   => (objects[i].passed \/ objects[i].missed)]_vars

\* The hoop at the left edge has just been marked missed, 1 to 2 units behind.
C26_Witness ==
    /\ lastOp = "frame" /\ state.misses = 1 /\ ui.misses = 1
    /\ \E i \in 1..Len(objects) :
          /\ objects[i].type = "hoop" /\ objects[i].missed /\ ~objects[i].active
          /\ objects[i].z - eagle.z > 1000
          /\ objects[i].z - eagle.z <= 2000

\* C27: on a running tick the spawner fires exactly when lastSpawnZ is at
\* least HOOP_SPAWN_INTERVAL behind the spawn horizon playerZ - SPAWN_DISTANCE;
\* a fire moves lastSpawnZ to the horizon and adds exactly one hoop, there, and
\* at most one obstacle; without a fire nothing is added.  So hoops are at
\* least HOOP_SPAWN_INTERVAL apart and no obstacle arrives without a hoop.
C27_SpawnerFires ==
    /\ [][(lastOp' = "frame" /\ state.isRunning /\ ~state.isPaused)
           => LET spawnZ == eagle'.z - U(SPAWN_DISTANCE)
                  fresh  == {j \in 1..Len(objects') :
                               \A i \in 1..Len(objects) :
                                   objects[i].z # objects'[j].z}
                  hoops  == {j \in fresh : objects'[j].type = "hoop"}
              IN  IF state.lastSpawnZ - spawnZ >= U(HOOP_SPAWN_INTERVAL)
                  THEN /\ state'.lastSpawnZ = spawnZ
                       /\ Cardinality(hoops) = 1
                       /\ \A j \in hoops : objects'[j].z = spawnZ
                       /\ Cardinality(fresh \ hoops) <= 1
                  ELSE /\ state'.lastSpawnZ = state.lastSpawnZ
                       /\ fresh = {}]_vars
    /\ [](\A i, j \in 1..Len(objects) :
            (i # j /\ objects[i].type = "hoop" /\ objects[j].type = "hoop")
              => Abs(objects[i].z - objects[j].z) >= U(HOOP_SPAWN_INTERVAL))

\* A later fire of the run has just added a hoop at the horizon and a fan
\* with it, while the hoop of the fire before is still ahead.
C27_Witness ==
    /\ lastOp = "frame" /\ state.isRunning
    /\ state.distanceTraveled > U(HOOP_SPAWN_INTERVAL)
    /\ state.lastSpawnZ = eagle.z - U(SPAWN_DISTANCE)
    /\ \E i, j, k \in 1..Len(objects) :
          /\ objects[i].type = "hoop" /\ objects[i].z = state.lastSpawnZ
          /\ objects[j].type = "fan" /\ objects[j].z = state.lastSpawnZ - U(10)
          /\ objects[k].type = "hoop"
          /\ objects[k].z - objects[i].z >= U(HOOP_SPAWN_INTERVAL)
          /\ objects[k].z - objects[i].z < U(HOOP_SPAWN_INTERVAL) + 2400

\* C28: no object of the active set lies more than REMOVE_DISTANCE behind the
\* player, none lies further ahead than the spawn horizon plus the largest
\* obstacle offset (the wall's 20), and the set never holds more than 8
\* objects however long the run.
C28_ActiveSetBounded ==
    /\ \A i \in 1..Len(objects) :
          /\ objects[i].z <= eagle.z + U(REMOVE_DISTANCE)
          /\ objects[i].z >= eagle.z - U(SPAWN_DISTANCE) - U(20)
    /\ Len(objects) <= 8

\* Far into a long flight the set holds six objects, the oldest within a
\* tick of removal and the newest fan 10 units beyond the spawn horizon.
C28_Witness ==
    /\ lastOp = "frame" /\ state.isRunning
    /\ state.distanceTraveled > U(10000)
    /\ Len(objects) = 6
    /\ \E i, j \in 1..Len(objects) :
          /\ objects[i].z > eagle.z + U(REMOVE_DISTANCE) - 2400
          /\ objects[j].type = "fan"
          /\ objects[j].z < eagle.z - U(SPAWN_DISTANCE)

\* C29 as stated: in every reachable state tempo = 100 + intensity * 60
\* (the intensity in sixtieths: tempo = 100 + intensity).
C29_TempoFollowsIntensity == audio.tempo = 100 + audio.intensity

\* C29, amended: tempo = 100 + intensity * 60 in every state outside game
\* over; the game-over cue played with an audio context leaves intensity 1
\* and tempo 60, which stay until the restart sets the intensity again.
C29_TempoFollowsIntensityUntilGameOver ==
    /\ (state.gameOver /\ audio.ctx)
          => (audio.intensity = 60 /\ audio.tempo = 60)
    /\ ~(state.gameOver /\ audio.ctx)
          => audio.tempo = 100 + audio.intensity

\* The third miss ended a run with sound: setIntensity put the tempo at 160
\* and the game-over cue, played after it, left it at 60.
C29_Witness ==
    /\ state.gameOver /\ audio.ctx /\ hist.gameOverCues = 1
    /\ state.misses = MissLimit /\ IntensityLevel(state) >= 60
    /\ audio.intensity = 60 /\ audio.tempo = 60

\* C30: the audio intensity stays in [0, 1] (0..60 sixtieths) whatever score
\* and misses the game passes, scores above 20 included.
C30_IntensityInUnitRange == audio.intensity \in 0..60

\* A hoop missed at a score above 20: the level passed is above 1 and the
\* intensity is 1.
C30_Witness ==
    /\ lastOp = "frame" /\ state.isRunning
    /\ state.score > 20 /\ state.misses = 1
    /\ IntensityLevel(state) > 60
    /\ audio.intensity = 60 /\ audio.tempo = 160

(***************************************************************************)
(* The audio scheduler and the one-shot cues                               *)
(***************************************************************************)
\* C31: at most one scheduler re-arm timer is pending at any time, whatever
\* the sequence of startMusic and stopMusic calls and timer firings.
C31_OneSchedulerTimer == audio.timers <= 1

\* C32: each run of the scheduler terminates.  A run while playing emits n
\* notes, each advancing nextNoteTime by 60/tempo/4 > 0 and noteIndex by 1,
\* and stops as soon as nextNoteTime >= currentTime + 0.1; it arms exactly one
\* timer.  A run while not playing emits nothing and arms nothing.
C32_SchedulerRunTerminates ==
    [][/\ (lastOp' = "startMusic" \/ (lastOp' = "timer" /\ audio.isPlaying))
            => LET start == IF lastOp' = "startMusic" THEN audio.now
                            ELSE audio.nextNoteTime
                   n     == audio'.noteIndex - audio.noteIndex
                   step  == 15000000 \div audio.tempo
               IN  /\ step > 0
                   /\ n >= 0
                   /\ audio'.nextNoteTime = start + n * step
                   /\ audio'.nextNoteTime >= audio.now + LookaheadUs
                   /\ n > 0 => audio'.nextNoteTime - step < audio.now + LookaheadUs
                   /\ n = 0 => start >= audio.now + LookaheadUs
                   /\ audio'.timers =
                         audio.timers + (IF lastOp' = "startMusic" THEN 1 ELSE 0)
       /\ (lastOp' = "timer" /\ ~audio.isPlaying)
            => audio' = [audio EXCEPT !.timers = @ - 1]]_vars

\* A timer has run the scheduler at tempo 60, late enough that the notes
\* emitted so far number four or more; the next note is beyond the window.
C32_Witness ==
    /\ lastOp = "timer" /\ audio.isPlaying /\ audio.tempo = 60
    /\ audio.noteIndex >= 4 /\ audio.now >= 200000
    /\ audio.nextNoteTime >= audio.now + LookaheadUs
    /\ audio.nextNoteTime - 250000 < audio.now + LookaheadUs

\* C33: while the audio context has never been created, the collect, crash
\* and game-over cues change nothing in the controller: intensity, tempo,
\* isPlaying, nextNoteTime and noteIndex stay as they are and no sound starts.
C33_CuesSilentWithoutContext ==
    [][(lastOp' \in {"collect", "crash", "gameOver"} /\ ~audio.ctx)
          => /\ audio'.intensity = audio.intensity
             /\ audio'.tempo = audio.tempo
             /\ audio'.isPlaying = audio.isPlaying
             /\ audio'.nextNoteTime = audio.nextNoteTime
             /\ audio'.noteIndex = audio.noteIndex
             /\ audio'.lastCue = "none"
             /\ ~audio'.ctx]_vars

\* The game-over cue was called with no context after setIntensity(1): the
\* tempo is still 160, not the cue's 60.
C33_Witness ==
    /\ lastOp = "gameOver" /\ ~audio.ctx
    /\ audio.intensity = 60 /\ audio.tempo = 160 /\ audio.lastCue = "none"

(***************************************************************************)
(* Explosions                                                              *)
(***************************************************************************)
\* C34: the explosion set holds at most one explosion; an explosion exists
\* only while gameOver is true; every unpaused frame counts it down by dt and
\* removes it whole in the first frame that brings the countdown to 0 or
\* below, so none is ever left with a countdown <= 0.  While it exists the
\* game is not paused and a frame callback is queued, so every frame
\* delivered brings it nearer to removal: within 125 frames it is gone,
\* unless a restart clears it first.
C34_ExplosionLifecycle ==
    /\ [](/\ Len(explosions) <= 1
          /\ explosions # <<>> => (state.gameOver /\ ~state.isPaused /\ pending > 0)
          /\ \A i \in 1..Len(explosions) :
                explosions[i] > 0 /\ explosions[i] <= ExplosionLifeMs)
    /\ [][(lastOp' = "frame" /\ explosions # <<>>)
            => explosions' = IF explosions[1] - DtMs <= 0 THEN <<>>
                             ELSE <<explosions[1] - DtMs>>]_vars
    /\ [][(explosions # <<>> /\ explosions' = <<>>)
            => (lastOp' = "start" \/ explosions[1] <= DtMs)]_vars

\* The explosion of a lost run has burnt out with the game-over screen still
\* up: the frame that took its countdown to 0 removed it.
C34_Witness ==
    /\ state.gameOver /\ ui.gameOverScreen /\ lastOp = "frame"
    /\ hist.explosionsCreated = 1 /\ explosions = <<>>
    /\ state.misses = MissLimit

(***************************************************************************)
(* State invariants                                                        *)
(***************************************************************************)
\* C35: whenever isPaused is true, isRunning is true and gameOver is false;
\* a frame delivered while paused does not end the run, a step that ends the
\* run leaves it un-paused, and a start or restart never leaves the game
\* paused.
C35_PausedOnlyWhileRunning ==
    /\ [](state.isPaused => (state.isRunning /\ ~state.gameOver))
    /\ [][/\ (state.isPaused /\ lastOp' = "frame") => ~state'.gameOver
          /\ (~state.gameOver /\ state'.gameOver) => ~state'.isPaused
          /\ lastOp' = "start" => ~state'.isPaused]_vars

\* Paused one miss away from the end of the run, with a frame callback having
\* fired during the pause.
C35_Witness ==
    /\ state.isPaused /\ state.isRunning /\ ~state.gameOver
    /\ lastOp = "frame" /\ state.misses = MissLimit - 1

\* C36: no hoop is both passed and missed, and a hoop is inactive exactly
\* when it is passed or missed.  A start leaves score = misses = 0 and no
\* hoops; every later step raises score by the number of hoops it marks
\* passed and misses by the number it marks missed, and removes no unmarked
\* hoop: so score + misses is the number of hoops marked since the start.
\* Until the first hoop can have been removed, that number is the count of
\* marked hoops in the active set.
C36_HoopAccounting ==
    /\ [](\A i \in 1..Len(objects) :
            objects[i].type = "hoop"
              => /\ ~(objects[i].passed /\ objects[i].missed)
                 /\ ~objects[i].active <=> (objects[i].passed \/ objects[i].missed))
    /\ [][IF lastOp' = "start"
          THEN /\ state'.score = 0 /\ state'.misses = 0
               /\ \A j \in 1..Len(objects') : objects'[j].type # "hoop"
          ELSE LET now(i, j) == /\ objects[i].type = "hoop"
                                /\ objects'[j].type = "hoop"
                                /\ objects'[j].z = objects[i].z
                   newPassed == {i \in 1..Len(objects) :
                                   \E j \in 1..Len(objects') :
                                      /\ now(i, j)
                                      /\ ~objects[i].passed /\ objects'[j].passed}
                   newMissed == {i \in 1..Len(objects) :
                                   \E j \in 1..Len(objects') :
                                      /\ now(i, j)
                                      /\ ~objects[i].missed /\ objects'[j].missed}
                   unmarkedGone == {i \in 1..Len(objects) :
                                      /\ Unresolved(objects[i])
                                      /\ \A j \in 1..Len(objects') : ~now(i, j)}
               IN  /\ state'.score = state.score + Cardinality(newPassed)
                   /\ state'.misses = state.misses + Cardinality(newMissed)
                   /\ unmarkedGone = {}
                   /\ \A j \in 1..Len(objects') :
                         (objects'[j].type = "hoop"
                            /\ \A i \in 1..Len(objects) : ~now(i, j))
                           => Unresolved(objects'[j])]_vars
    /\ [](state.distanceTraveled <= U(SPAWN_DISTANCE + REMOVE_DISTANCE)
            => state.score + state.misses =
                 Cardinality({i \in 1..Len(objects) :
                                 /\ objects[i].type = "hoop"
                                 /\ (objects[i].passed \/ objects[i].missed)}))

\* One hoop has been passed and removed since, and the next one has just
\* been missed: it is in the active set, marked and inactive.
C36_Witness ==
    /\ lastOp = "frame" /\ state.score = 1 /\ state.misses = 1
    /\ \E j \in 1..Len(objects) :
          /\ objects[j].type = "hoop" /\ objects[j].missed /\ ~objects[j].active
          /\ ~objects[j].passed
    /\ \A i \in 1..Len(objects) : ~objects[i].passed

\* C37: in every state, speed = min(PLAYER_SPEED_BASE + score, PLAYER_SPEED_MAX).
C37_SpeedFollowsScore ==
    state.speed = Min(PLAYER_SPEED_BASE + state.score, PLAYER_SPEED_MAX)

\* The first hoop scored with the speed already at its maximum: the score is
\* one more than the maximum allows for.
C37_Witness ==
    /\ lastOp = "frame"
    /\ state.score = PLAYER_SPEED_MAX - PLAYER_SPEED_BASE + 1
    /\ state.speed = PLAYER_SPEED_MAX
    /\ ui.score = state.score

(***************************************************************************)
(* The D-pad flags                                                         *)
(***************************************************************************)
\* C38: at most one of the four D-pad direction flags is true, and all four
\* are false whenever no D-pad touch is tracked (dpadTouchIdentifier null).
C38_OneDpadDirection ==
    LET flags == <<dpad.isDpadUp, dpad.isDpadDown, dpad.isDpadLeft,
                   dpad.isDpadRight>>
        set   == {i \in 1..4 : flags[i]}
    IN  /\ Cardinality(set) <= 1
        /\ dpad.dpadTouchIdentifier = NoTouch => set = {}

\* The tracked finger has lifted while a second finger, never tracked, is
\* still on the D-pad beyond the dead zone and has just moved: no flag is set.
C38_Witness ==
    /\ lastOp = "touchmove" /\ dpad.dpadTouchIdentifier = NoTouch
    /\ ~dpad.dpadRect
    /\ \E t \in TouchIds :
          /\ dpad.touches[t].where = "dpad" /\ dpad.touches[t].x = 30
          /\ dpad.touches[t].y = 0
    /\ ~dpad.isDpadUp /\ ~dpad.isDpadDown /\ ~dpad.isDpadLeft /\ ~dpad.isDpadRight

====
